---- MODULE Spec2Model ----
(***************************************************************************)
(* Model of the Disneyland reviews explorer: process.py (ingestion and the *)
(* aggregation queries) and the menu loop of main.py.  Spec is process.py  *)
(* under any caller, SpecHistory adds a caller that retains a result, and  *)
(* SpecRun is main.run.                                                    *)
(* Strings are sequences of one-character strings,                         *)
(* so that int(), str.split and str.strip are computed, not assumed.       *)
(* Averages rounded to 2 decimals are integers counting hundredths.        *)
(***************************************************************************)
EXTENDS Integers, Sequences, FiniteSets, TLC

VARIABLES fieldnames, rows, reviews, pc, call, result, kept, run

vars == <<fieldnames, rows, reviews, pc, call, result, kept, run>>

(***************************************************************************)
(* Bounds                                                                  *)
(***************************************************************************)
\* number of data records in the CSV file
MaxRows == 3
\* largest limit passed to top_locations_for_branch
MaxLimit == 2
\* largest collection whose results a caller retains for a later comparison
MaxKeptRows == 2
\* number of data records in the CSV file main.run loads
MaxRunRows == 2

(***************************************************************************)
(* Strings                                                                 *)
(***************************************************************************)
DigitVal ==
  [c \in {"0", "1", "2", "3", "4", "5", "6", "7", "8", "9"} |->
     CASE c = "0" -> 0 [] c = "1" -> 1 [] c = "2" -> 2 [] c = "3" -> 3
       [] c = "4" -> 4 [] c = "5" -> 5 [] c = "6" -> 6 [] c = "7" -> 7
       [] c = "8" -> 8 [] c = "9" -> 9]

IsDigit(c) == c \in DOMAIN DigitVal

IsSpace(c) == c = " "

\* code points of the characters the model's strings are made of
Ord(c) ==
  CASE c = " " -> 32 [] c = "+" -> 43 [] c = "-" -> 45
    [] IsDigit(c) -> 48 + DigitVal[c]
    [] c = "A" -> 65 [] c = "B" -> 66 [] c = "K" -> 75 [] c = "S" -> 83
    [] c = "U" -> 85 [] c = "Z" -> 90
    [] c = "k" -> 107 [] c = "n" -> 110 [] c = "o" -> 111
    [] c = "w" -> 119 [] c = "x" -> 120

\* str.__lt__: lexicographic by code point, a proper prefix is smaller
RECURSIVE StrLess(_, _)
StrLess(s, t) ==
  IF t = <<>> THEN FALSE
  ELSE IF s = <<>> THEN TRUE
  ELSE IF Ord(Head(s)) # Ord(Head(t)) THEN Ord(Head(s)) < Ord(Head(t))
  ELSE StrLess(Tail(s), Tail(t))

RECURSIVE LStrip(_)
LStrip(s) ==
  IF s # <<>> /\ IsSpace(Head(s)) THEN LStrip(Tail(s)) ELSE s

RECURSIVE RStrip(_)
RStrip(s) ==
  IF s # <<>> /\ IsSpace(s[Len(s)]) THEN RStrip(SubSeq(s, 1, Len(s) - 1)) ELSE s

\* str.strip()
Strip(s) == RStrip(LStrip(s))

\* index of the first occurrence of character c in s, 0 if there is none
RECURSIVE FindFrom(_, _, _)
FindFrom(s, c, i) ==
  IF i > Len(s) THEN 0
  ELSE IF s[i] = c THEN i
  ELSE FindFrom(s, c, i + 1)

\* s.split(c, maxsplit=1): one part when c does not occur, else two
Split1(s, c) ==
  LET i == FindFrom(s, c, 1)
  IN IF i = 0 THEN <<s>>
     ELSE <<SubSeq(s, 1, i - 1), SubSeq(s, i + 1, Len(s))>>

RECURSIVE DigitsValue(_, _)
DigitsValue(s, acc) ==
  IF s = <<>> THEN acc ELSE DigitsValue(Tail(s), 10 * acc + DigitVal[Head(s)])

\* int(s) for a string: surrounding whitespace and one sign are accepted,
\* anything else than decimal digits is a ValueError
PyInt(s) ==
  LET t == Strip(s)
      signed == t # <<>> /\ Head(t) \in {"+", "-"}
      digits == IF signed THEN Tail(t) ELSE t
      ok == digits # <<>> /\ \A i \in 1..Len(digits) : IsDigit(digits[i])
  IN IF ~ok THEN [exc |-> "ValueError", val |-> 0]
     ELSE [exc |-> "ok",
           val |-> IF signed /\ Head(t) = "-" THEN 0 - DigitsValue(digits, 0)
                   ELSE DigitsValue(digits, 0)]

(***************************************************************************)
(* The CSV file: a header and data records (sequences of cells)            *)
(***************************************************************************)
Header == <<"Review_ID", "Rating", "Year_Month", "Reviewer_Location", "Branch">>

\* a file whose header lacks the Branch column
HeaderNoBranch == <<"Review_ID", "Rating", "Year_Month", "Reviewer_Location">>

Unknown == <<"U", "n", "k", "n", "o", "w", "n">>

IdCells == {<<"7">>}
RatingCells == {<<"3">>, <<"5">>}
YearMonthCells ==
  {<<"2", "0", "1", "8", "-", "5">>,
   <<"2", "0", "1", "9", "-", "0", "5">>,
   <<"2", "0", "1", "9", "-", "1", "3">>}
LocationCells == {<<"U", "S">>, <<"U", "K">>}
BranchCells == {<<"A">>, <<"B">>}

PlainRecords ==
  {<<i, r, ym, l, b>> : i \in IdCells, r \in RatingCells, ym \in YearMonthCells,
                        l \in LocationCells, b \in BranchCells}

\* well-formed records whose cells need trimming or the Unknown sentinel, the
\* last with a blank Branch cell
UntidyRecords ==
  {<<<<"8">>, <<" ", "+", "4", " ">>, <<"2", "0", "1", "8", "-", "0", "5">>,
     <<" ">>, <<" ", "B", " ">>>>,
   <<<<"7">>, <<"4">>, <<"2", "0", "1", "9", "-", "5">>, <<>>, <<"A">>, <<"x">>>>,
   <<<<"7">>, <<"5">>, <<"2", "0", "1", "9", "-", "0", "5">>, <<"U", "K">>, <<" ">>>>}

\* records load_reviews cannot turn into a Review
MalformedRecords ==
  {<<<<"x">>, <<"5">>, <<"2", "0", "1", "9", "-", "0", "5">>, <<"U", "S">>, <<"A">>>>,
   <<<<"7">>, <<"x">>, <<"2", "0", "1", "9", "-", "0", "5">>, <<"U", "S">>, <<"A">>>>,
   <<<<"7">>, <<>>, <<"2", "0", "1", "9", "-", "0", "5">>, <<"U", "K">>, <<"B">>>>,
   <<<<"7">>, <<"5">>, <<"2", "0", "1", "9">>, <<"U", "S">>, <<"A">>>>,
   <<<<"7">>, <<"5">>, <<"2", "0", "1", "9", "-", "0", "5", "-", "1">>, <<"U", "K">>, <<"A">>>>,
   <<<<"7">>, <<"5">>, <<"x", "-", "5">>, <<"U", "S">>, <<"B">>>>}

\* records with fewer cells than the header has columns
ShortRecords ==
  {<<<<"7">>, <<"5">>>>,
   <<<<"7">>, <<"5">>, <<"2", "0", "1", "9", "-", "0", "5">>>>,
   <<<<"7">>, <<"5">>, <<"2", "0", "1", "9", "-", "0", "5">>, <<"U", "S">>>>}

Records == PlainRecords \cup UntidyRecords \cup MalformedRecords \cup ShortRecords

\* position of a column in the header, 0 if the header has no such column
ColumnOf(names, name) ==
  IF \E i \in 1..Len(names) : names[i] = name
  THEN CHOOSE i \in 1..Len(names) : names[i] = name
  ELSE 0

\* row[name] of the dict csv.DictReader makes of a record: KeyError when the
\* header has no such column, None (restval) when the record is too short
RowGet(names, rec, name) ==
  LET i == ColumnOf(names, name)
  IN IF i = 0 THEN [exc |-> "KeyError", none |-> FALSE, val |-> <<>>]
     ELSE IF i > Len(rec) THEN [exc |-> "ok", none |-> TRUE, val |-> <<>>]
     ELSE [exc |-> "ok", none |-> FALSE, val |-> rec[i]]

(***************************************************************************)
(* process.py: ingestion                                                   *)
(***************************************************************************)
Review(id, rating, year, month, location, branch) ==
  [review_id |-> id, rating |-> rating, year |-> year, month |-> month,
   reviewer_location |-> location, branch |-> branch]

NoReview == Review(0, 0, 0, 0, <<>>, <<>>)

\* _parse_year_month: split once on the first hyphen and parse both sides;
\* the unpacking of a single part and a failing int() are a ValueError
parse_year_month(year_month) ==
  LET parts == Split1(year_month, "-")
      y == PyInt(parts[1])
      m == PyInt(parts[2])
  IN IF Len(parts) # 2 THEN [exc |-> "ValueError", year |-> 0, month |-> 0]
     ELSE IF y.exc # "ok" THEN [exc |-> y.exc, year |-> 0, month |-> 0]
     ELSE IF m.exc # "ok" THEN [exc |-> m.exc, year |-> 0, month |-> 0]
     ELSE [exc |-> "ok", year |-> y.val, month |-> m.val]

\* the exception of evaluating f(row[name]) where f is a str method (split,
\* strip): None has no such attribute
StrFieldExc(cell) ==
  IF cell.exc # "ok" THEN cell.exc
  ELSE IF cell.none THEN "AttributeError"
  ELSE "ok"

\* the exception of evaluating int(row[name]): int(None) is a TypeError
IntFieldExc(cell) ==
  IF cell.exc # "ok" THEN cell.exc
  ELSE IF cell.none THEN "TypeError"
  ELSE PyInt(cell.val).exc

\* the first element of a sequence of outcomes that is not "ok"
RECURSIVE FirstExc(_)
FirstExc(excs) ==
  IF excs = <<>> THEN "ok"
  ELSE IF Head(excs) # "ok" THEN Head(excs)
  ELSE FirstExc(Tail(excs))

\* the body of the try block of load_reviews for one record, in the order
\* Python evaluates it: the exception raised ("ok" if none) and the Review
build_review(names, rec) ==
  LET ymCell == RowGet(names, rec, "Year_Month")
      idCell == RowGet(names, rec, "Review_ID")
      ratingCell == RowGet(names, rec, "Rating")
      locCell == RowGet(names, rec, "Reviewer_Location")
      branchCell == RowGet(names, rec, "Branch")
      ymExc == IF StrFieldExc(ymCell) # "ok" THEN StrFieldExc(ymCell)
               ELSE parse_year_month(ymCell.val).exc
      exc == FirstExc(<<ymExc, IntFieldExc(idCell), IntFieldExc(ratingCell),
                        StrFieldExc(locCell), StrFieldExc(branchCell)>>)
      ym == parse_year_month(ymCell.val)
      loc == Strip(locCell.val)
  IN [exc |-> exc,
      review |-> IF exc # "ok" THEN NoReview
                 ELSE Review(PyInt(idCell.val).val, PyInt(ratingCell.val).val,
                             ym.year, ym.month,
                             IF loc = <<>> THEN Unknown ELSE loc,
                             Strip(branchCell.val))]

\* except (KeyError, ValueError): continue
Caught(exc) == exc \in {"KeyError", "ValueError"}

NoCall == [fn |-> "none", branch |-> <<>>, limit |-> 0]
NoResult == [kind |-> "none"]
\* no result retained by the caller
NoKept == [call |-> NoCall, result |-> NoResult]
\* process.py used without main.run
NoRun ==
  [at |-> "none", out |-> <<>>, branches |-> <<>>, main_choice |-> <<>>,
   vis_choice |-> <<>>]
\* the records read from one file
RowLimit == IF run = NoRun THEN MaxRows ELSE MaxRunRows

Init ==
  /\ fieldnames \in {Header, HeaderNoBranch}
  /\ rows = <<>>
  /\ reviews = <<>>
  /\ pc = "load"
  /\ call = NoCall
  /\ result = NoResult
  /\ kept = NoKept
  /\ run = NoRun

\* one iteration of `for row in reader` that ends in reviews.append(review)
LoadRowAppend ==
  /\ pc = "load"
  /\ Len(rows) < RowLimit
  /\ \E rec \in Records :
       LET b == build_review(fieldnames, rec)
       IN /\ b.exc = "ok"
          /\ rows' = Append(rows, rec)
          /\ reviews' = Append(reviews, b.review)
  /\ UNCHANGED <<fieldnames, pc, call, result, kept, run>>

\* one iteration whose exception the except clause catches: the row is skipped
LoadRowSkip ==
  /\ pc = "load"
  /\ Len(rows) < RowLimit
  /\ \E rec \in Records :
       LET b == build_review(fieldnames, rec)
       IN /\ b.exc # "ok"
          /\ Caught(b.exc)
          /\ rows' = Append(rows, rec)
  /\ UNCHANGED <<fieldnames, reviews, pc, call, result, kept, run>>

\* one iteration whose exception the except clause does not catch: it leaves
\* load_reviews, no list is returned
LoadRowRaise ==
  /\ pc = "load"
  /\ Len(rows) < RowLimit
  /\ \E rec \in Records :
       LET b == build_review(fieldnames, rec)
       IN /\ b.exc # "ok"
          /\ ~Caught(b.exc)
          /\ rows' = Append(rows, rec)
          /\ pc' = "raised"
          /\ result' = [kind |-> "exception", exc |-> b.exc]
  /\ UNCHANGED <<fieldnames, reviews, call, kept, run>>

\* the reader is exhausted: the file is closed and the list returned
LoadReturn ==
  /\ pc = "load"
  /\ pc' = "ready"
  /\ fieldnames' = <<>>
  /\ rows' = <<>>
  /\ UNCHANGED <<reviews, call, result, kept, run>>

(***************************************************************************)
(* Python values                                                           *)
(*   dict          a function; a defaultdict(int) reads 0 for a missing key*)
(*   Optional[T]   None is <<>>, a value v is <<v>>                        *)
(*   float         rounded to 2 decimals: the integer number of hundredths *)
(***************************************************************************)
None == <<>>
Some(v) == <<v>>

EmptyDict == <<>>

DefaultGet(d, k) == IF k \in DOMAIN d THEN d[k] ELSE 0

DictSet(d, k, v) == [x \in DOMAIN d \cup {k} |-> IF x = k THEN v ELSE d[x]]

\* Round2 cutting the quotient off after 2 decimals instead of rounding it
Round2_Truncate(total, count) == (100 * total) \div count

\* round(total / count, 2) in hundredths, for count > 0: the nearest
\* hundredth.  A quotient of two integers lies exactly halfway between two
\* hundredths only when count is a multiple of 8; Python then rounds the
\* double nearest to the quotient, to the even neighbour when that double is
\* exact (1/8 -> 0.12), which is the case written here.
Round2(total, count) ==
  LET n == 100 * total
      q == n \div count
      r == n % count
  IN IF 2 * r < count THEN q
     ELSE IF 2 * r > count THEN q + 1
     ELSE IF q % 2 = 0 THEN q ELSE q + 1

\* SumCount that starts a new key's count at 0 instead of 1
SumCount_LateCount(revs, key_func) ==
  LET acc[i \in 0..Len(revs)] ==
        IF i = 0 THEN [totals |-> EmptyDict, counts |-> EmptyDict]
        ELSE LET prev == acc[i - 1]
                 key == key_func[revs[i]]
             IN [totals |-> DictSet(prev.totals, key,
                                    DefaultGet(prev.totals, key) + revs[i].rating),
                 counts |-> DictSet(prev.counts, key,
                                    IF key \in DOMAIN prev.counts
                                    THEN prev.counts[key] + 1 ELSE 0)]
  IN acc[Len(revs)]

\* SumCount whose loop starts at the second review
SumCount_SkipFirst(revs, key_func) ==
  LET acc[i \in 1..Len(revs)] ==
        IF i = 1 THEN [totals |-> EmptyDict, counts |-> EmptyDict]
        ELSE LET prev == acc[i - 1]
                 key == key_func[revs[i]]
             IN [totals |-> DictSet(prev.totals, key,
                                    DefaultGet(prev.totals, key) + revs[i].rating),
                 counts |-> DictSet(prev.counts, key,
                                    DefaultGet(prev.counts, key) + 1)]
  IN IF revs = <<>> THEN [totals |-> EmptyDict, counts |-> EmptyDict]
     ELSE acc[Len(revs)]

\* the accumulation loop the average queries share, key_func a function on
\* the reviews:
\*   totals[key] += review.rating; counts[key] += 1
SumCount(revs, key_func) ==
  LET acc[i \in 0..Len(revs)] ==
        IF i = 0 THEN [totals |-> EmptyDict, counts |-> EmptyDict]
        ELSE LET prev == acc[i - 1]
                 key == key_func[revs[i]]
             IN [totals |-> DictSet(prev.totals, key,
                                    DefaultGet(prev.totals, key) + revs[i].rating),
                 counts |-> DictSet(prev.counts, key,
                                    DefaultGet(prev.counts, key) + 1)]
  IN acc[Len(revs)]

\* ForBranch without the condition of the comprehension
ForBranch_NoFilter(revs, branch) == revs

\* [r for r in reviews if r.branch == branch]
ForBranch(revs, branch) == SelectSeq(revs, LAMBDA r : r.branch = branch)

(***************************************************************************)
(* process.py: queries                                                     *)
(***************************************************************************)
MinOf(S) == CHOOSE x \in S : \A y \in S : x <= y
MaxOf(S) == CHOOSE x \in S : \A y \in S : y <= x

\* sorted() of a set of int
RECURSIVE SortedInts(_)
SortedInts(S) ==
  IF S = {} THEN <<>>
  ELSE LET m == MinOf(S) IN <<m>> \o SortedInts(S \ {m})

\* sorted() of a set of str
RECURSIVE SortedStrs(_)
SortedStrs(S) ==
  IF S = {} THEN <<>>
  ELSE LET m == CHOOSE x \in S : \A y \in S : ~StrLess(y, x)
       IN <<m>> \o SortedStrs(S \ {m})

\* summarise_reviews with 0 standing in for the rating range of no reviews
summarise_reviews_ZeroSentinel(revs) ==
  IF revs = <<>>
  THEN [total_reviews |-> 0, branches |-> <<>>, min_rating |-> Some(0),
        max_rating |-> Some(0), years |-> <<>>]
  ELSE LET ratings == {revs[i].rating : i \in 1..Len(revs)}
       IN [total_reviews |-> Len(revs),
           branches |-> SortedStrs({revs[i].branch : i \in 1..Len(revs)}),
           min_rating |-> Some(MinOf(ratings)),
           max_rating |-> Some(MaxOf(ratings)),
           years |-> SortedInts({revs[i].year : i \in 1..Len(revs)})]

\* summarise_reviews counting distinct review_ids instead of reviews
summarise_reviews_DistinctIds(revs) ==
  IF revs = <<>>
  THEN [total_reviews |-> 0, branches |-> <<>>, min_rating |-> None,
        max_rating |-> None, years |-> <<>>]
  ELSE LET ratings == {revs[i].rating : i \in 1..Len(revs)}
       IN [total_reviews |-> Cardinality({revs[i].review_id : i \in 1..Len(revs)}),
           branches |-> SortedStrs({revs[i].branch : i \in 1..Len(revs)}),
           min_rating |-> Some(MinOf(ratings)),
           max_rating |-> Some(MaxOf(ratings)),
           years |-> SortedInts({revs[i].year : i \in 1..Len(revs)})]

summarise_reviews(revs) ==
  IF revs = <<>>
  THEN [total_reviews |-> 0, branches |-> <<>>, min_rating |-> None,
        max_rating |-> None, years |-> <<>>]
  ELSE LET ratings == {revs[i].rating : i \in 1..Len(revs)}
       IN [total_reviews |-> Len(revs),
           branches |-> SortedStrs({revs[i].branch : i \in 1..Len(revs)}),
           min_rating |-> Some(MinOf(ratings)),
           max_rating |-> Some(MaxOf(ratings)),
           years |-> SortedInts({revs[i].year : i \in 1..Len(revs)})]

group_ratings_by_key(revs, key_func) ==
  LET acc == SumCount(revs, key_func)
  IN [key \in DOMAIN acc.totals |->
        IF acc.counts[key] # 0 THEN Round2(acc.totals[key], acc.counts[key])
        ELSE 0]

\* the elements of a sequence
Range(seq) == {seq[i] : i \in 1..Len(seq)}

\* key_func=lambda r: r.branch
average_rating_by_branch(revs) ==
  group_ratings_by_key(revs, [r \in Range(revs) |-> r.branch])

\* average_rating_by_month leaving out the reviews whose month is not 1..12
average_rating_by_month_ValidMonths(revs, branch) ==
  LET chosen == IF branch # None THEN ForBranch(revs, branch[1]) ELSE revs
      filtered == SelectSeq(chosen, LAMBDA r : r.month \in 1..12)
  IN group_ratings_by_key(filtered, [r \in Range(filtered) |-> <<r.year, r.month>>])

\* branch is an Optional[str]
average_rating_by_month(revs, branch) ==
  LET filtered == IF branch # None THEN ForBranch(revs, branch[1]) ELSE revs
  IN group_ratings_by_key(filtered, [r \in Range(filtered) |-> <<r.year, r.month>>])

\* Counter(items): the (element, count) pairs in order of first occurrence
Counter(items) ==
  LET acc[i \in 0..Len(items)] ==
        IF i = 0 THEN <<>>
        ELSE LET prev == acc[i - 1]
                 seen == {j \in 1..Len(prev) : prev[j][1] = items[i]}
             IN IF seen = {} THEN Append(prev, <<items[i], 1>>)
                ELSE [j \in 1..Len(prev) |->
                        IF j \in seen THEN <<prev[j][1], prev[j][2] + 1>>
                        ELSE prev[j]]
  IN acc[Len(items)]

\* InsertByCount putting p before the pairs of its own count
InsertByCount_TiesFirst(sorted, p) ==
  LET ahead == {j \in 1..Len(sorted) : sorted[j][2] > p[2]}
      k == IF ahead = {} THEN 0 ELSE MaxOf(ahead)
  IN SubSeq(sorted, 1, k) \o <<p>> \o SubSeq(sorted, k + 1, Len(sorted))

\* one step of a stable sort by descending count: p goes behind every pair
\* whose count is at least its own
InsertByCount(sorted, p) ==
  LET ahead == {j \in 1..Len(sorted) : sorted[j][2] >= p[2]}
      k == IF ahead = {} THEN 0 ELSE MaxOf(ahead)
  IN SubSeq(sorted, 1, k) \o <<p>> \o SubSeq(sorted, k + 1, Len(sorted))

\* most_common taking the first n pairs of the counter, unsorted
most_common_Unsorted(counter, n) ==
  IF n <= 0 THEN <<>>
  ELSE SubSeq(counter, 1, IF n < Len(counter) THEN n ELSE Len(counter))

\* Counter.most_common(n) = sorted(items, key=count, reverse=True)[:n], which
\* keeps pairs of equal count in their order in the counter; nothing for n <= 0
most_common(counter, n) ==
  LET acc[i \in 0..Len(counter)] ==
        IF i = 0 THEN <<>> ELSE InsertByCount(acc[i - 1], counter[i])
      sorted == acc[Len(counter)]
  IN IF n <= 0 THEN <<>>
     ELSE SubSeq(sorted, 1, IF n < Len(sorted) THEN n ELSE Len(sorted))

top_locations_for_branch(revs, branch, limit) ==
  LET matching == ForBranch(revs, branch)
      locations == [i \in 1..Len(matching) |-> matching[i].reviewer_location]
  IN most_common(Counter(locations), limit)

\* review_counts_by_park_and_location storing 1 instead of adding 1
review_counts_by_park_and_location_SetOne(revs) ==
  LET acc[i \in 0..Len(revs)] ==
        IF i = 0 THEN EmptyDict
        ELSE LET prev == acc[i - 1]
                 b == revs[i].branch
                 inner == IF b \in DOMAIN prev THEN prev[b] ELSE EmptyDict
                 l == revs[i].reviewer_location
             IN DictSet(prev, b, DictSet(inner, l, 1))
  IN acc[Len(revs)]

\* counts[review.branch][review.reviewer_location] += 1
review_counts_by_park_and_location(revs) ==
  LET acc[i \in 0..Len(revs)] ==
        IF i = 0 THEN EmptyDict
        ELSE LET prev == acc[i - 1]
                 b == revs[i].branch
                 inner == IF b \in DOMAIN prev THEN prev[b] ELSE EmptyDict
                 l == revs[i].reviewer_location
             IN DictSet(prev, b, DictSet(inner, l, DefaultGet(inner, l) + 1))
  IN acc[Len(revs)]

\* the nesting loop of the two-key averages: result[outer][inner] = avg
NestedAverages(acc) ==
  [outer \in {k[1] : k \in DOMAIN acc.totals} |->
     [inner \in {k[2] : k \in {x \in DOMAIN acc.totals : x[1] = outer}} |->
        LET key == <<outer, inner>>
        IN IF acc.counts[key] # 0 THEN Round2(acc.totals[key], acc.counts[key])
           ELSE 0]]

average_score_per_year_by_park(revs) ==
  NestedAverages(SumCount(revs, [r \in Range(revs) |-> <<r.branch, r.year>>]))

average_rating_by_location_for_branch(revs, branch) ==
  LET matching == ForBranch(revs, branch)
      acc == SumCount(matching, [r \in Range(matching) |-> r.reviewer_location])
  IN [loc \in {l \in DOMAIN acc.totals : acc.counts[l] # 0} |->
        Round2(acc.totals[loc], acc.counts[loc])]

\* average_rating_by_calendar_month_for_branch reporting 0.0 for a month
\* without reviews
average_rating_by_calendar_month_for_branch_ZeroFilled(revs, branch) ==
  LET matching == ForBranch(revs, branch)
      acc == SumCount(matching, [r \in Range(matching) |-> r.month])
  IN [month \in 1..12 |->
        IF DefaultGet(acc.counts, month) # 0
        THEN Round2(DefaultGet(acc.totals, month), DefaultGet(acc.counts, month))
        ELSE 0]

\* for month in range(1, 13): if counts[month]: ...
average_rating_by_calendar_month_for_branch(revs, branch) ==
  LET matching == ForBranch(revs, branch)
      acc == SumCount(matching, [r \in Range(matching) |-> r.month])
  IN [month \in {m \in 1..12 : DefaultGet(acc.counts, m) # 0} |->
        Round2(DefaultGet(acc.totals, month), DefaultGet(acc.counts, month))]

\* average_score_per_park_by_reviewer_location accumulating by location alone
average_score_per_park_by_reviewer_location_ByLocationOnly(revs) ==
  LET acc == SumCount(revs, [r \in Range(revs) |-> r.reviewer_location])
  IN [b \in {r.branch : r \in Range(revs)} |->
        [l \in {r.reviewer_location : r \in {x \in Range(revs) : x.branch = b}} |->
           Round2(acc.totals[l], acc.counts[l])]]

average_score_per_park_by_reviewer_location(revs) ==
  NestedAverages(SumCount(revs,
                          [r \in Range(revs) |-> <<r.branch, r.reviewer_location>>]))

(***************************************************************************)
(* Callers: any query, any number of times, in any order, once the         *)
(* collection is loaded                                                    *)
(***************************************************************************)
\* branch arguments: the branches of the file and one no record has
BranchArgs == {<<"A">>, <<"B">>, <<"Z">>}

Limits == 1..MaxLimit

Call(fn, branch, limit) == [fn |-> fn, branch |-> branch, limit |-> limit]

SummariseReviews ==
  /\ pc = "ready"
  /\ pc' = "called"
  /\ call' = Call("summarise_reviews", None, 0)
  /\ result' = summarise_reviews(reviews)
  /\ UNCHANGED <<fieldnames, rows, reviews, kept, run>>

AverageRatingByBranch ==
  /\ pc = "ready"
  /\ pc' = "called"
  /\ call' = Call("average_rating_by_branch", None, 0)
  /\ result' = average_rating_by_branch(reviews)
  /\ UNCHANGED <<fieldnames, rows, reviews, kept, run>>

\* AverageRatingByMonth whose branch filter removes the other reviews from
\* the caller's list
AverageRatingByMonth_FilterInPlace ==
  /\ pc = "ready"
  /\ pc' = "called"
  /\ \E branch \in {None} \cup {Some(b) : b \in BranchArgs} :
       /\ call' = Call("average_rating_by_month", branch, 0)
       /\ result' = average_rating_by_month(reviews, branch)
       /\ reviews' = SelectSeq(reviews,
                               LAMBDA r : branch = None \/ r.branch = branch[1])
  /\ UNCHANGED <<fieldnames, rows, kept, run>>

AverageRatingByMonth ==
  /\ pc = "ready"
  /\ pc' = "called"
  /\ \E branch \in {None} \cup {Some(b) : b \in BranchArgs} :
       /\ call' = Call("average_rating_by_month", branch, 0)
       /\ result' = average_rating_by_month(reviews, branch)
  /\ UNCHANGED <<fieldnames, rows, reviews, kept, run>>

TopLocationsForBranch ==
  /\ pc = "ready"
  /\ pc' = "called"
  /\ \E b \in BranchArgs, limit \in Limits :
       /\ call' = Call("top_locations_for_branch", Some(b), limit)
       /\ result' = top_locations_for_branch(reviews, b, limit)
  /\ UNCHANGED <<fieldnames, rows, reviews, kept, run>>

ReviewCountsByParkAndLocation ==
  /\ pc = "ready"
  /\ pc' = "called"
  /\ call' = Call("review_counts_by_park_and_location", None, 0)
  /\ result' = review_counts_by_park_and_location(reviews)
  /\ UNCHANGED <<fieldnames, rows, reviews, kept, run>>

AverageScorePerYearByPark ==
  /\ pc = "ready"
  /\ pc' = "called"
  /\ call' = Call("average_score_per_year_by_park", None, 0)
  /\ result' = average_score_per_year_by_park(reviews)
  /\ UNCHANGED <<fieldnames, rows, reviews, kept, run>>

AverageRatingByLocationForBranch ==
  /\ pc = "ready"
  /\ pc' = "called"
  /\ \E b \in BranchArgs :
       /\ call' = Call("average_rating_by_location_for_branch", Some(b), 0)
       /\ result' = average_rating_by_location_for_branch(reviews, b)
  /\ UNCHANGED <<fieldnames, rows, reviews, kept, run>>

AverageRatingByCalendarMonthForBranch ==
  /\ pc = "ready"
  /\ pc' = "called"
  /\ \E b \in BranchArgs :
       /\ call' = Call("average_rating_by_calendar_month_for_branch", Some(b), 0)
       /\ result' = average_rating_by_calendar_month_for_branch(reviews, b)
  /\ UNCHANGED <<fieldnames, rows, reviews, kept, run>>

AverageScorePerParkByReviewerLocation ==
  /\ pc = "ready"
  /\ pc' = "called"
  /\ call' = Call("average_score_per_park_by_reviewer_location", None, 0)
  /\ result' = average_score_per_park_by_reviewer_location(reviews)
  /\ UNCHANGED <<fieldnames, rows, reviews, kept, run>>

\* the caller is done with the mapping or sequence it was returned
Discard ==
  /\ pc = "called"
  /\ pc' = "ready"
  /\ call' = NoCall
  /\ result' = NoResult
  /\ UNCHANGED <<fieldnames, rows, reviews, kept, run>>

Next ==
  \/ LoadRowAppend
  \/ LoadRowSkip
  \/ LoadRowRaise
  \/ LoadReturn
  \/ SummariseReviews
  \/ AverageRatingByBranch
  \/ AverageRatingByMonth
  \/ TopLocationsForBranch
  \/ ReviewCountsByParkAndLocation
  \/ AverageScorePerYearByPark
  \/ AverageRatingByLocationForBranch
  \/ AverageRatingByCalendarMonthForBranch
  \/ AverageScorePerParkByReviewerLocation
  \/ Discard

Spec == Init /\ [][Next]_vars

\* the caller binds the returned mapping to a name and goes on to other
\* queries (`avg_by_branch = average_rating_by_branch(reviews)`)
Keep ==
  /\ pc = "called"
  /\ Len(reviews) <= MaxKeptRows
  /\ pc' = "ready"
  /\ kept' = [call |-> call, result |-> result]
  /\ call' = NoCall
  /\ result' = NoResult
  /\ UNCHANGED <<fieldnames, rows, reviews, run>>

NextHistory ==
  \/ Next
  \/ Keep

SpecHistory == Init /\ [][NextHistory]_vars

(***************************************************************************)
(* main.run.  run.at is the input() the program waits at, run.out what it  *)
(* printed since the previous input, run.branches, run.main_choice and     *)
(* run.vis_choice the locals of run; call and result are the query last    *)
(* issued and the mapping it returned.                                     *)
(***************************************************************************)
\* str.upper on the letters typed at a menu
Upper(c) ==
  CASE c = "a" -> "A" [] c = "b" -> "B" [] c = "c" -> "C" [] c = "d" -> "D"
    [] c = "x" -> "X" [] OTHER -> c

\* input().strip().upper()
MenuChoice(raw) == LET t == Strip(raw) IN [i \in 1..Len(t) |-> Upper(t[i])]

\* lines typed at a menu prompt
MenuInputs ==
  {<<"A">>, <<"a">>, <<" ", "B">>, <<"b", " ">>, <<"C">>, <<"c">>, <<"d">>,
   <<"X">>, <<" ", "x">>, <<"Q">>, <<>>}

\* lines typed at the prompt of choose_branch
BranchInputs ==
  {<<>>, <<" ">>, <<"1">>, <<" ", "2">>, <<"0">>, <<"3">>, <<"x">>, <<"²">>}

\* str.isdigit: true of the decimal digits and of digit characters int()
\* does not accept, such as SUPERSCRIPT TWO
IsDigitStr(s) ==
  s # <<>> /\ \A i \in 1..Len(s) : IsDigit(s[i]) \/ s[i] = "²"

\* the positions of run inside `while True`
LoopAt == {"main_menu", "view_menu", "vis_menu", "choose_branch"}

InitRun ==
  /\ fieldnames \in {Header, HeaderNoBranch}
  /\ rows = <<>>
  /\ reviews = <<>>
  /\ pc = "idle"
  /\ call = NoCall
  /\ result = NoResult
  /\ kept = NoKept
  /\ run = [at |-> "start", out |-> <<>>, branches |-> <<>>,
            main_choice |-> <<>>, vis_choice |-> <<>>]

\* if not DATA_PATH.exists(): show_error(...); return
RunMissing ==
  /\ run.at = "start"
  /\ run' = [run EXCEPT !.at = "returned", !.out = <<"error">>]
  /\ UNCHANGED <<fieldnames, rows, reviews, pc, call, result, kept>>

\* the file exists: reviews = load_reviews(DATA_PATH) is entered
RunLoad ==
  /\ run.at = "start"
  /\ pc = "idle"
  /\ pc' = "load"
  /\ run' = [run EXCEPT !.at = "load"]
  /\ UNCHANGED <<fieldnames, rows, reviews, call, result, kept>>

\* an exception load_reviews did not catch leaves run as well: run has no
\* try statement
RunLoadRaised ==
  /\ run.at = "load"
  /\ pc = "raised"
  /\ run' = [run EXCEPT !.at = "raised"]
  /\ UNCHANGED <<fieldnames, rows, reviews, pc, call, result, kept>>

\* if not reviews: show_error(...); return
RunNoReviews ==
  /\ run.at = "load"
  /\ pc = "ready"
  /\ reviews = <<>>
  /\ run' = [run EXCEPT !.at = "returned", !.out = <<"error">>]
  /\ UNCHANGED <<fieldnames, rows, reviews, pc, call, result, kept>>

\* branches = sorted({...}); print_welcome(); the first main menu
RunWelcome ==
  /\ run.at = "load"
  /\ pc = "ready"
  /\ reviews # <<>>
  /\ run' = [run EXCEPT !.at = "main_menu", !.out = <<"welcome", "menu">>,
                        !.branches = SortedStrs({r.branch : r \in Range(reviews)})]
  /\ UNCHANGED <<fieldnames, rows, reviews, pc, call, result, kept>>

\* main_choice == "A": the View Data sub-menu is shown
MainChoiceView ==
  /\ run.at = "main_menu"
  /\ \E raw \in MenuInputs :
       /\ MenuChoice(raw) = <<"A">>
       /\ run' = [run EXCEPT !.at = "view_menu", !.main_choice = MenuChoice(raw),
                             !.out = <<"chosen", "view_menu">>]
  /\ UNCHANGED <<fieldnames, rows, reviews, pc, call, result, kept>>

\* main_choice == "B": the Visualise Data sub-menu is shown
MainChoiceVisualise ==
  /\ run.at = "main_menu"
  /\ \E raw \in MenuInputs :
       /\ MenuChoice(raw) = <<"B">>
       /\ run' = [run EXCEPT !.at = "vis_menu", !.main_choice = MenuChoice(raw),
                             !.out = <<"chosen", "vis_menu">>]
  /\ UNCHANGED <<fieldnames, rows, reviews, pc, call, result, kept>>

\* main_choice == "X": print_goodbye(); break
MainChoiceExit ==
  /\ run.at = "main_menu"
  /\ \E raw \in MenuInputs :
       /\ MenuChoice(raw) = <<"X">>
       /\ run' = [run EXCEPT !.at = "returned", !.main_choice = MenuChoice(raw),
                             !.out = <<"chosen", "goodbye">>]
  /\ UNCHANGED <<fieldnames, rows, reviews, pc, call, result, kept>>

\* anything else: show_error("Unknown menu option selected."), the menu again
MainChoiceUnknown ==
  /\ run.at = "main_menu"
  /\ \E raw \in MenuInputs :
       /\ MenuChoice(raw) \notin {<<"A">>, <<"B">>, <<"X">>}
       /\ run' = [run EXCEPT !.main_choice = MenuChoice(raw),
                             !.out = <<"invalid", "error", "menu">>]
  /\ UNCHANGED <<fieldnames, rows, reviews, pc, call, result, kept>>

\* view_choice A, B, C or D: the query is issued, its table shown, and the
\* loop goes round to the main menu
ViewData ==
  /\ run.at = "view_menu"
  /\ \E raw \in MenuInputs :
       LET view_choice == MenuChoice(raw)
       IN /\ view_choice \in {<<"A">>, <<"B">>, <<"C">>, <<"D">>}
          /\ call' = Call(CASE view_choice = <<"A">> -> "average_rating_by_branch"
                            [] view_choice = <<"B">> -> "review_counts_by_park_and_location"
                            [] view_choice = <<"C">> -> "average_score_per_year_by_park"
                            [] view_choice = <<"D">> -> "average_score_per_park_by_reviewer_location",
                          None, 0)
          /\ result' = CASE view_choice = <<"A">> -> average_rating_by_branch(reviews)
                         [] view_choice = <<"B">> -> review_counts_by_park_and_location(reviews)
                         [] view_choice = <<"C">> -> average_score_per_year_by_park(reviews)
                         [] view_choice = <<"D">> -> average_score_per_park_by_reviewer_location(reviews)
  /\ run' = [run EXCEPT !.at = "main_menu", !.out = <<"table", "menu">>]
  /\ UNCHANGED <<fieldnames, rows, reviews, pc, kept>>

\* any other view_choice: show_error("Unknown View Data menu option.")
ViewUnknown ==
  /\ run.at = "view_menu"
  /\ \E raw \in MenuInputs :
       MenuChoice(raw) \notin {<<"A">>, <<"B">>, <<"C">>, <<"D">>}
  /\ run' = [run EXCEPT !.at = "main_menu", !.out = <<"error", "menu">>]
  /\ UNCHANGED <<fieldnames, rows, reviews, pc, call, result, kept>>

\* vis_choice == "A": the averages by branch are plotted
VisualiseByBranch ==
  /\ run.at = "vis_menu"
  /\ \E raw \in MenuInputs :
       /\ MenuChoice(raw) = <<"A">>
       /\ run' = [run EXCEPT !.at = "main_menu", !.vis_choice = MenuChoice(raw),
                             !.out = <<"chart", "menu">>]
  /\ call' = Call("average_rating_by_branch", None, 0)
  /\ result' = average_rating_by_branch(reviews)
  /\ UNCHANGED <<fieldnames, rows, reviews, pc, kept>>

\* vis_choice B or C: choose_branch(branches) lists the branches and prompts
\* (branches is not empty, the collection is not)
VisualiseChooseBranch ==
  /\ run.at = "vis_menu"
  /\ \E raw \in MenuInputs :
       /\ MenuChoice(raw) \in {<<"B">>, <<"C">>}
       /\ run.branches # <<>>
       /\ run' = [run EXCEPT !.at = "choose_branch", !.vis_choice = MenuChoice(raw),
                             !.out = <<"branches", "prompt">>]
  /\ UNCHANGED <<fieldnames, rows, reviews, pc, call, result, kept>>

\* any other vis_choice: show_error("Unknown Visualise Data menu option.")
VisualiseUnknown ==
  /\ run.at = "vis_menu"
  /\ \E raw \in MenuInputs :
       /\ MenuChoice(raw) \notin {<<"A">>, <<"B">>, <<"C">>}
       /\ run' = [run EXCEPT !.at = "main_menu", !.vis_choice = MenuChoice(raw),
                             !.out = <<"error", "menu">>]
  /\ UNCHANGED <<fieldnames, rows, reviews, pc, call, result, kept>>

\* choose_branch: ENTER cancels, run goes round to the main menu
ChooseBranchCancel ==
  /\ run.at = "choose_branch"
  /\ \E raw \in BranchInputs : Strip(raw) = <<>>
  /\ run' = [run EXCEPT !.at = "main_menu", !.out = <<"menu">>]
  /\ UNCHANGED <<fieldnames, rows, reviews, pc, call, result, kept>>

\* choose_branch: not a number, or not a number of the list: show_error and
\* the prompt again
ChooseBranchRetry ==
  /\ run.at = "choose_branch"
  /\ \E raw \in BranchInputs :
       LET s == Strip(raw)
       IN /\ s # <<>>
          /\ \/ ~IsDigitStr(s)
             \/ /\ PyInt(s).exc = "ok"
                /\ ~(1 <= PyInt(s).val /\ PyInt(s).val <= Len(run.branches))
  /\ run' = [run EXCEPT !.out = <<"error", "prompt">>]
  /\ UNCHANGED <<fieldnames, rows, reviews, pc, call, result, kept>>

\* choose_branch: index = int(raw) raises ValueError on a digit character
\* that is not a decimal digit; neither choose_branch nor run catches it
ChooseBranchRaise ==
  /\ run.at = "choose_branch"
  /\ \E raw \in BranchInputs :
       /\ IsDigitStr(Strip(raw))
       /\ PyInt(Strip(raw)).exc # "ok"
  /\ run' = [run EXCEPT !.at = "raised", !.out = <<>>]
  /\ UNCHANGED <<fieldnames, rows, reviews, pc, call, result, kept>>

\* choose_branch returns branches[index - 1]: the query of vis_choice is
\* issued for it, its chart plotted (an error if the mapping is empty), and
\* the loop goes round to the main menu
ChooseBranchPick ==
  /\ run.at = "choose_branch"
  /\ \E raw \in BranchInputs :
       LET s == Strip(raw)
       IN /\ IsDigitStr(s)
          /\ PyInt(s).exc = "ok"
          /\ 1 <= PyInt(s).val /\ PyInt(s).val <= Len(run.branches)
          /\ LET branch == run.branches[PyInt(s).val]
                 fn == IF run.vis_choice = <<"B">>
                       THEN "average_rating_by_location_for_branch"
                       ELSE "average_rating_by_calendar_month_for_branch"
                 value == IF run.vis_choice = <<"B">>
                          THEN average_rating_by_location_for_branch(reviews, branch)
                          ELSE average_rating_by_calendar_month_for_branch(reviews, branch)
             IN /\ call' = Call(fn, Some(branch), 0)
                /\ result' = value
                /\ run' = [run EXCEPT !.at = "main_menu",
                                      !.out = IF value # EmptyDict
                                              THEN <<"chart", "menu">>
                                              ELSE <<"error", "menu">>]
  /\ UNCHANGED <<fieldnames, rows, reviews, pc, kept>>

NextRun ==
  \/ RunMissing
  \/ RunLoad
  \/ LoadRowAppend
  \/ LoadRowSkip
  \/ LoadRowRaise
  \/ LoadReturn
  \/ RunLoadRaised
  \/ RunNoReviews
  \/ RunWelcome
  \/ MainChoiceView
  \/ MainChoiceVisualise
  \/ MainChoiceExit
  \/ MainChoiceUnknown
  \/ ViewData
  \/ ViewUnknown
  \/ VisualiseByBranch
  \/ VisualiseChooseBranch
  \/ VisualiseUnknown
  \/ ChooseBranchCancel
  \/ ChooseBranchRetry
  \/ ChooseBranchRaise
  \/ ChooseBranchPick

SpecRun == InitRun /\ [][NextRun]_vars

(***************************************************************************)
(* Properties.  The expected values are stated from the review collection  *)
(* itself (index sets, sums, cardinalities), not from the query operators. *)
(***************************************************************************)
Idx == 1..Len(reviews)

\* the reviews taking part in a call with an optional branch argument
Selected(branch) == {i \in Idx : branch = None \/ reviews[i].branch = branch[1]}

RECURSIVE RatingSum(_)
RatingSum(I) ==
  IF I = {} THEN 0
  ELSE LET i == CHOOSE x \in I : TRUE IN reviews[i].rating + RatingSum(I \ {i})

Abs(x) == IF x < 0 THEN 0 - x ELSE x

\* v hundredths is the mean rating of the reviews I rounded to 2 decimals:
\* no hundredth is nearer to sum / count
IsMean(v, I) ==
  /\ I # {}
  /\ 2 * Abs(100 * RatingSum(I) - v * Cardinality(I)) <= Cardinality(I)

Returned(fn) == pc = "called" /\ call.fn = fn

YearMonthOf(i) == <<reviews[i].year, reviews[i].month>>

\* C1: the key set of a grouped average (by branch; by (year, month), with or
\* without a branch filter) is exactly the set of keys of the reviews that
\* were grouped: every such key is there, and no other.
C1_GroupingCompleteness ==
  /\ Returned("average_rating_by_branch") =>
       DOMAIN result = {reviews[i].branch : i \in Idx}
  /\ Returned("average_rating_by_month") =>
       DOMAIN result = {YearMonthOf(i) : i \in Selected(call.branch)}

C1_Witness ==
  /\ Returned("average_rating_by_branch")
  /\ Len(reviews) = 3
  /\ Cardinality(DOMAIN result) = 2

\* C2: every value of a grouped average, single-key or nested, is the sum of
\* the ratings of exactly the reviews of that key divided by their number,
\* rounded to 2 decimals.
C2_AverageCorrectness ==
  /\ Returned("average_rating_by_branch") =>
       \A k \in DOMAIN result :
         IsMean(result[k], {i \in Idx : reviews[i].branch = k})
  /\ Returned("average_rating_by_month") =>
       \A k \in DOMAIN result :
         IsMean(result[k], {i \in Selected(call.branch) : YearMonthOf(i) = k})
  /\ Returned("average_score_per_year_by_park") =>
       \A b \in DOMAIN result : \A y \in DOMAIN result[b] :
         IsMean(result[b][y],
                {i \in Idx : reviews[i].branch = b /\ reviews[i].year = y})
  /\ Returned("average_score_per_park_by_reviewer_location") =>
       \A b \in DOMAIN result : \A l \in DOMAIN result[b] :
         IsMean(result[b][l],
                {i \in Idx : reviews[i].branch = b
                             /\ reviews[i].reviewer_location = l})

\* ratings 3, 3, 5 under one branch: 11 / 3 is reported as 3.67
C2_Witness ==
  /\ Returned("average_rating_by_branch")
  /\ \E k \in DOMAIN result :
       /\ result[k] = 367
       /\ Cardinality({i \in Idx : reviews[i].branch = k}) = 3

\* the records of the file that are well formed: five cells or more under a
\* header with the five columns, integer identifier and rating, YYYY-M(M)
WellFormed(names, rec) ==
  /\ names = Header
  /\ rec \in PlainRecords \cup UntidyRecords

\* C3: load_reviews never raises, and what it has collected is exactly the
\* well-formed records read so far, in their order.
C3_MalformedRowsSkipped ==
  /\ pc # "raised"
  /\ pc = "load" =>
       LET good == SelectSeq(rows, LAMBDA rec : WellFormed(fieldnames, rec))
       IN reviews = [i \in 1..Len(good) |-> build_review(fieldnames, good[i]).review]

BranchOf(i) == reviews[i].branch

MonthOf(i) == reviews[i].month

\* the reviews of the branch a call names
OfCalledBranch == {i \in Idx : BranchOf(i) = call.branch[1]}

\* C4 as stated: a month outside 1..12 of a review that takes part is a key
\* of average_rating_by_month (inside its (year, month) key) and of
\* average_rating_by_calendar_month_for_branch.
C4_AsStated ==
  /\ Returned("average_rating_by_month") =>
       \A i \in Selected(call.branch) :
         MonthOf(i) \notin 1..12 => YearMonthOf(i) \in DOMAIN result
  /\ Returned("average_rating_by_calendar_month_for_branch") =>
       \A i \in OfCalledBranch :
         MonthOf(i) \notin 1..12 => MonthOf(i) \in DOMAIN result

\* C4 (amended): a month outside 1..12 of a review that takes part is kept by
\* average_rating_by_month inside its (year, month) key, while
\* average_rating_by_calendar_month_for_branch reports months 1..12 only and
\* has no key for it.
C4_OutOfRangeMonths ==
  /\ Returned("average_rating_by_month") =>
       \A i \in Selected(call.branch) :
         MonthOf(i) \notin 1..12 => YearMonthOf(i) \in DOMAIN result
  /\ Returned("average_rating_by_calendar_month_for_branch") =>
       /\ DOMAIN result \subseteq 1..12
       /\ \A i \in OfCalledBranch :
            MonthOf(i) \notin 1..12 => MonthOf(i) \notin DOMAIN result

C4_Witness ==
  /\ Returned("average_rating_by_month")
  /\ call.branch # None
  /\ \E k \in DOMAIN result : k[2] = 13

\* C5 as stated: at most 12 entries; an entry for month m exactly when a
\* review of the branch has month m; the entry is the mean over all years.
C5_AsStated ==
  Returned("average_rating_by_calendar_month_for_branch") =>
    /\ Cardinality(DOMAIN result) <= 12
    /\ \A m \in (1..12) \cup {MonthOf(i) : i \in Idx} :
         m \in DOMAIN result <=> \E i \in OfCalledBranch : MonthOf(i) = m
    /\ \A m \in DOMAIN result :
         IsMean(result[m], {i \in OfCalledBranch : MonthOf(i) = m})

\* C5 (amended): at most 12 entries; for m in 1..12 there is an entry exactly
\* when a review of the branch has month m, and it is the rounded mean over
\* all reviews of the branch with month m whatever their year; a month with
\* no such review, and any month outside 1..12, has no entry.
C5_CalendarMonthMerge ==
  Returned("average_rating_by_calendar_month_for_branch") =>
    /\ Cardinality(DOMAIN result) <= 12
    /\ DOMAIN result \subseteq 1..12
    /\ \A m \in 1..12 :
         m \in DOMAIN result <=> \E i \in OfCalledBranch : MonthOf(i) = m
    /\ \A m \in DOMAIN result :
         IsMean(result[m], {i \in OfCalledBranch : MonthOf(i) = m})

\* 2018-05 rated 5 and 2019-05 rated 3 for one branch: the single entry 5 -> 4.00
C5_Witness ==
  /\ Returned("average_rating_by_calendar_month_for_branch")
  /\ \E i, j \in OfCalledBranch :
       /\ reviews[i].year = 2018 /\ MonthOf(i) = 5 /\ reviews[i].rating = 5
       /\ reviews[j].year = 2019 /\ MonthOf(j) = 5 /\ reviews[j].rating = 3
  /\ Cardinality(OfCalledBranch) = 2
  /\ DOMAIN result = {5}
  /\ result[5] = 400

\* C6: a call with no data (an empty collection, or a branch argument no
\* review has) returns its empty result: an empty mapping or sequence, and
\* for summarise_reviews the zero summary with None as min and max rating.
C6_NoDataIsEmpty ==
  /\ Returned("summarise_reviews") /\ reviews = <<>> =>
       /\ result.total_reviews = 0
       /\ result.branches = <<>>
       /\ result.years = <<>>
       /\ result.min_rating = None
       /\ result.max_rating = None
  /\ pc = "called" /\ call.fn # "summarise_reviews" /\ Selected(call.branch) = {} =>
       DOMAIN result = {}

C6_Witness ==
  /\ Returned("average_rating_by_location_for_branch")
  /\ Len(reviews) = 3
  /\ Selected(call.branch) = {}
  /\ DOMAIN result = {}

\* C7: average_rating_by_month with branch X is computed from exactly the
\* reviews of branch X, keys and values, and without a branch from all.
C7_FilterCorrectness ==
  Returned("average_rating_by_month") =>
    LET taking == IF call.branch = None THEN Idx
                  ELSE {i \in Idx : BranchOf(i) = call.branch[1]}
    IN /\ DOMAIN result = {YearMonthOf(i) : i \in taking}
       /\ \A k \in DOMAIN result :
            IsMean(result[k], {i \in taking : YearMonthOf(i) = k})

\* a review of another branch shares the (year, month) of a selected one and
\* would change its average
C7_Witness ==
  /\ Returned("average_rating_by_month")
  /\ call.branch # None
  /\ \E i, j \in Idx :
       /\ BranchOf(i) = call.branch[1]
       /\ BranchOf(j) # call.branch[1]
       /\ YearMonthOf(i) = YearMonthOf(j)
       /\ reviews[i].rating # reviews[j].rating

LocationOf(i) == reviews[i].reviewer_location

\* the reviewer locations of the called branch, and the true count of one
CalledLocations == {LocationOf(i) : i \in OfCalledBranch}

TrueCount(l) == Cardinality({i \in OfCalledBranch : LocationOf(i) = l})

ReturnedLocations == {result[j][1] : j \in DOMAIN result}

\* C8: top_locations_for_branch with a positive limit N returns min(N, number
\* of distinct locations of the branch) pairs of distinct locations, each with
\* its true count, in non-increasing order of count, and no location left out
\* has a count greater than a returned one.
C8_TopLocations ==
  Returned("top_locations_for_branch") /\ call.limit > 0 =>
    /\ Len(result) = IF call.limit < Cardinality(CalledLocations)
                     THEN call.limit ELSE Cardinality(CalledLocations)
    /\ Cardinality(ReturnedLocations) = Len(result)
    /\ \A j \in 1..Len(result) :
         /\ result[j][1] \in CalledLocations
         /\ result[j][2] = TrueCount(result[j][1])
    /\ \A j, k \in 1..Len(result) : j < k => result[j][2] >= result[k][2]
    /\ \A l \in CalledLocations \ ReturnedLocations :
         \A j \in 1..Len(result) : TrueCount(l) <= result[j][2]

\* the limit cuts: the location kept has more reviews than one left out,
\* which was seen first
C8_Witness ==
  /\ Returned("top_locations_for_branch")
  /\ call.limit = 1
  /\ Len(result) = 1
  /\ result[1][2] = 2
  /\ \E i \in OfCalledBranch :
       /\ LocationOf(i) # result[1][1]
       /\ \A j \in OfCalledBranch : i <= j

\* index of the first review of the called branch from location l
FirstSeen(l) ==
  CHOOSE i \in OfCalledBranch :
    /\ LocationOf(i) = l
    /\ \A j \in OfCalledBranch : LocationOf(j) = l => i <= j

PositionOf(l) == CHOOSE j \in 1..Len(result) : result[j][1] = l

\* C9: of two locations with the same count, the one whose first review comes
\* earlier in the collection is placed first, and is the one kept when the
\* limit cuts between them, whatever the alphabetical order of their names.
C9_TiesByInsertionOrder ==
  Returned("top_locations_for_branch") =>
    \A l1, l2 \in CalledLocations :
      /\ TrueCount(l1) = TrueCount(l2)
      /\ FirstSeen(l1) < FirstSeen(l2)
      /\ l2 \in ReturnedLocations
      => /\ l1 \in ReturnedLocations
         /\ PositionOf(l1) < PositionOf(l2)

\* a tie at the cut, won by the location seen first although its name sorts
\* after the other's
C9_Witness ==
  /\ Returned("top_locations_for_branch")
  /\ call.limit = 1
  /\ Len(result) = 1
  /\ \E l \in CalledLocations :
       /\ l # result[1][1]
       /\ TrueCount(l) = result[1][2]
       /\ FirstSeen(result[1][1]) < FirstSeen(l)
       /\ StrLess(l, result[1][1])

\* s is in strictly ascending order by less
AscendingStrs(s) == \A j, k \in 1..Len(s) : j < k => StrLess(s[j], s[k])

AscendingInts(s) == \A j, k \in 1..Len(s) : j < k => s[j] < s[k]

\* C10: for a non-empty collection, summarise_reviews gives the number of
\* reviews (equal review_ids each counted), the distinct branches and the
\* distinct years in ascending order without repeats, and the smallest and
\* largest rating.
C10_Summary ==
  Returned("summarise_reviews") /\ reviews # <<>> =>
    /\ result.total_reviews = Len(reviews)
    /\ Range(result.branches) = {BranchOf(i) : i \in Idx}
    /\ AscendingStrs(result.branches)
    /\ Range(result.years) = {reviews[i].year : i \in Idx}
    /\ AscendingInts(result.years)
    /\ Len(result.min_rating) = 1
    /\ Len(result.max_rating) = 1
    /\ \E i \in Idx : reviews[i].rating = result.min_rating[1]
    /\ \E i \in Idx : reviews[i].rating = result.max_rating[1]
    /\ \A i \in Idx : /\ result.min_rating[1] <= reviews[i].rating
                      /\ reviews[i].rating <= result.max_rating[1]

\* two reviews share a review_id; two branches, two years, two ratings
C10_Witness ==
  /\ Returned("summarise_reviews")
  /\ \E i, j \in Idx : i # j /\ reviews[i].review_id = reviews[j].review_id
  /\ Len(result.branches) = 2
  /\ Len(result.years) = 2
  /\ result.min_rating # result.max_rating

\* the sum of the values of a mapping to integers
RECURSIVE ValueSum(_)
ValueSum(d) ==
  IF DOMAIN d = {} THEN 0
  ELSE LET k == CHOOSE x \in DOMAIN d : TRUE
       IN d[k] + ValueSum([x \in DOMAIN d \ {k} |-> d[x]])

RECURSIVE NestedValueSum(_)
NestedValueSum(d) ==
  IF DOMAIN d = {} THEN 0
  ELSE LET k == CHOOSE x \in DOMAIN d : TRUE
       IN ValueSum(d[k]) + NestedValueSum([x \in DOMAIN d \ {k} |-> d[x]])

\* C11: review_counts_by_park_and_location has an entry result[b][l] exactly
\* when some review has branch b and reviewer location l, the entry is the
\* number of those reviews, and all entries add up to the number of reviews.
C11_CountsByParkAndLocation ==
  Returned("review_counts_by_park_and_location") =>
    /\ DOMAIN result = {BranchOf(i) : i \in Idx}
    /\ \A b \in DOMAIN result :
         /\ DOMAIN result[b] = {LocationOf(i) : i \in {j \in Idx : BranchOf(j) = b}}
         /\ \A l \in DOMAIN result[b] :
              result[b][l] =
                Cardinality({i \in Idx : BranchOf(i) = b /\ LocationOf(i) = l})
    /\ NestedValueSum(result) = Len(reviews)

\* a pair of branch and location with two reviews, and a second branch
C11_Witness ==
  /\ Returned("review_counts_by_park_and_location")
  /\ Cardinality(DOMAIN result) = 2
  /\ \E b \in DOMAIN result : \E l \in DOMAIN result[b] : result[b][l] = 2

\* C13: every Review load_reviews has collected has a non-empty reviewer
\* location and a non-empty branch, both stored trimmed.
C13_LoadedFieldsNonEmpty ==
  \A i \in Idx :
    /\ LocationOf(i) # <<>>
    /\ BranchOf(i) # <<>>
    /\ Strip(LocationOf(i)) = LocationOf(i)
    /\ Strip(BranchOf(i)) = BranchOf(i)

\* C15: the nested location averages agree with the per-branch ones: for
\* every branch of the collection the inner mapping of
\* average_score_per_park_by_reviewer_location equals
\* average_rating_by_location_for_branch for that branch, and the outer keys
\* are exactly the branches whose per-branch result is not empty.
C15_NestedAgreesWithPerBranch ==
  Returned("average_score_per_park_by_reviewer_location") =>
    /\ \A b \in {BranchOf(i) : i \in Idx} :
         /\ b \in DOMAIN result
         /\ result[b] = average_rating_by_location_for_branch(reviews, b)
    /\ DOMAIN result =
         {b \in BranchArgs \cup {BranchOf(i) : i \in Idx} :
            DOMAIN average_rating_by_location_for_branch(reviews, b) # {}}

\* two branches share a location whose averages differ between them
C15_Witness ==
  /\ Returned("average_score_per_park_by_reviewer_location")
  /\ \E b1, b2 \in DOMAIN result : \E l \in DOMAIN result[b1] :
       /\ b1 # b2
       /\ l \in DOMAIN result[b2]
       /\ result[b1][l] # result[b2][l]

\* v hundredths lies between the smallest and the largest rating of the
\* reviews I, and between the min_rating and max_rating of the summary
WithinRatings(v, I) ==
  LET summary == summarise_reviews(reviews)
  IN /\ \E i \in I : 100 * reviews[i].rating <= v
     /\ \E i \in I : v <= 100 * reviews[i].rating
     /\ 100 * summary.min_rating[1] <= v
     /\ v <= 100 * summary.max_rating[1]

\* C16: every average of every average query lies between the smallest and
\* the largest rating of its own (non-empty) group, hence between the
\* min_rating and max_rating of summarise_reviews; the 0.0 of a zero count
\* is never reported.
C16_AveragesWithinRatings ==
  /\ Returned("average_rating_by_branch") =>
       \A k \in DOMAIN result :
         WithinRatings(result[k], {i \in Idx : BranchOf(i) = k})
  /\ Returned("average_rating_by_month") =>
       \A k \in DOMAIN result :
         WithinRatings(result[k],
                       {i \in Selected(call.branch) : YearMonthOf(i) = k})
  /\ Returned("average_score_per_year_by_park") =>
       \A b \in DOMAIN result : \A y \in DOMAIN result[b] :
         WithinRatings(result[b][y],
                       {i \in Idx : BranchOf(i) = b /\ reviews[i].year = y})
  /\ Returned("average_rating_by_location_for_branch") =>
       \A l \in DOMAIN result :
         WithinRatings(result[l], {i \in OfCalledBranch : LocationOf(i) = l})
  /\ Returned("average_rating_by_calendar_month_for_branch") =>
       \A m \in DOMAIN result :
         WithinRatings(result[m], {i \in OfCalledBranch : MonthOf(i) = m})
  /\ Returned("average_score_per_park_by_reviewer_location") =>
       \A b \in DOMAIN result : \A l \in DOMAIN result[b] :
         WithinRatings(result[b][l],
                       {i \in Idx : BranchOf(i) = b /\ LocationOf(i) = l})

\* an average strictly between the smallest and the largest rating
C16_Witness ==
  /\ Returned("average_score_per_year_by_park")
  /\ \E b \in DOMAIN result : \E y \in DOMAIN result[b] :
       /\ result[b][y] = 433
       /\ 100 * summarise_reviews(reviews).min_rating[1] < result[b][y]
       /\ result[b][y] < 100 * summarise_reviews(reviews).max_rating[1]

\* C12: queries are pure and order independent: once loaded, no step changes
\* the review collection or a Review in it, and a query called with the
\* arguments of a retained earlier call returns a result equal to the
\* retained one, whatever ran in between.
C12_QueriesPure ==
  [][/\ pc \in {"ready", "called"} => reviews' = reviews
     /\ (pc = "ready" /\ pc' = "called" /\ call' = kept.call)
          => result' = kept.result]_vars

\* a query repeated with the arguments of a retained call on two reviews
C12_Witness ==
  /\ pc = "called"
  /\ call = kept.call
  /\ call.fn = "average_rating_by_month"
  /\ call.branch # None
  /\ Len(reviews) = 2
  /\ Cardinality(DOMAIN result) = 1
  /\ \E i \in Idx : BranchOf(i) # call.branch[1]

\* C14: in main.run the dataset is loaded once, before the menu loop; queries
\* are issued only inside the loop; inside the loop the collection stays the
\* same and every step other than the choice of X leads back to the main menu
\* (directly or through the sub-menu and the branch prompt); the loop is left
\* only by X, after the goodbye message; and run leaves its start either into
\* the menu with a loaded, non-empty collection, or by reporting an error
\* and returning without a menu.
C14_LoadOnceThenLoop ==
  [][/\ reviews' # reviews => run.at = "load"
     /\ (run'.at = "load" /\ run.at # "load") => run.at = "start"
     /\ run'.at = "start" => run.at = "start"
     /\ call' # call => run.at \in LoopAt
     /\ run.at \in LoopAt => reviews' = reviews
     /\ run.at = "view_menu" => run'.at = "main_menu"
     /\ run.at = "vis_menu" => run'.at \in {"main_menu", "choose_branch"}
     /\ run.at = "choose_branch" => run'.at \in {"main_menu", "choose_branch"}
     /\ (run.at \in LoopAt /\ run'.at \notin LoopAt)
          => /\ run.at = "main_menu"
             /\ run'.main_choice = <<"X">>
             /\ run'.at = "returned"
             /\ run'.out = <<"chosen", "goodbye">>
     /\ (run.at \in {"start", "load"} /\ run'.at \notin {"start", "load"})
          => \/ /\ run'.at = "main_menu"
                /\ pc = "ready"
                /\ reviews # <<>>
             \/ /\ run'.at = "returned"
                /\ run'.out = <<"error">>]_vars

====
